---- MODULE Spec2Model ----
(***************************************************************************)
(* TwiCommon, twitter.py: the QueueListener that collects two-party reply  *)
(* chains from a tweet stream, its batched parent lookup, the dump to the  *)
(* tweet / reply / part files, the check point file, and the reconnect     *)
(* loop of twitter().                                                      *)
(*                                                                         *)
(* Time is counted in quarters of a second (tcpip_delay 0.25 s = 1).       *)
(* A text file is the sequence of its characters; a character is a one-    *)
(* character string, "\n" the line feed.                                   *)
(***************************************************************************)
EXTENDS Integers, Sequences, FiniteSets, TLC

\* ------------------------------------------------------------------ bounds
\* BATCH_SIZE is 100 in the source (twitter.py:73); the model runs it small.
BATCH_SIZE == 2
\* number of tweets the stream delivers over the whole process lifetime
MaxDeliver == 3
\* a stream session may fail by an exception only while tcpip_delay <= this
MaxStreamFailDelay == 1
\* check point round trip: largest dump_count tried
MaxCount == 12

\* ------------------------------------------------- program constants
\* tcpip_delay = 0.25, in quarters of a second
InitialDelay == 1
\* tcpip_delay += 0.25
DelayIncrement == 1
\* min(tcpip_delay, 16)
MaxDelay == 64

None == 0
IsInt(x) == x # None

Range(s) == {s[i] : i \in 1..Len(s)}

Min(a, b) == IF a <= b THEN a ELSE b

\* ------------------------------------------------------------ the tweets
(* The tweets that exist on the service.  in_reply_to is None for a tweet  *)
(* that is no reply.  text is the tweet text after del_username and NFKC:  *)
(* lex holds which of the three patterns of check() occur in it, toks is   *)
(* what parse(normalize(text)) yields: the surfaces with their parts.      *)
Tok(w, p) == [word |-> w, part |-> p]

Good(tag) == <<Tok("n" \o tag, "noun_main"), Tok("v" \o tag, "verb_main"),
               Tok(".", "phrase_point")>>

Tweets ==
    [i \in {1, 2, 3, 4, 5, 6, 7, 8, 9, 10, 11, 12, 13} |->
       CASE i = 1  -> [in_reply_to |-> None, user |-> 1, lex |-> {}, toks |-> Good("1")]
         [] i = 2  -> [in_reply_to |-> 1, user |-> 2, lex |-> {}, toks |-> Good("2")]
         [] i = 3  -> [in_reply_to |-> 2, user |-> 1, lex |-> {}, toks |-> Good("3")]
         [] i = 4  -> [in_reply_to |-> 3, user |-> 2, lex |-> {}, toks |-> Good("4")]
         \* a third talker joins the thread 2 <- 1
         [] i = 5  -> [in_reply_to |-> 2, user |-> 3, lex |-> {}, toks |-> Good("5")]
         \* a talker replies to himself
         [] i = 6  -> [in_reply_to |-> 3, user |-> 1, lex |-> {}, toks |-> Good("6")]
         \* a reply carrying a URL
         [] i = 7  -> [in_reply_to |-> 1, user |-> 2, lex |-> {"url"}, toks |-> Good("7")]
         \* a reply to the tweet carrying a URL
         [] i = 8  -> [in_reply_to |-> 7, user |-> 1, lex |-> {}, toks |-> Good("8")]
         \* a tweet that keeps four words once dumped, more than length.max
         [] i = 9  -> [in_reply_to |-> None, user |-> 1, lex |-> {},
                       toks |-> <<Tok("n9", "noun_main"), Tok("v9", "verb_main"),
                                  Tok("p9", "pronoun"), Tok("m9", "noun_main")>>]
         \* a reply to the tweet that is too long
         [] i = 11 -> [in_reply_to |-> 9, user |-> 2, lex |-> {}, toks |-> Good("11")]
         \* a reply with no noun_main, too short once dumped
         [] i = 10 -> [in_reply_to |-> 4, user |-> 1, lex |-> {},
                       toks |-> <<Tok(".", "phrase_point")>>]
         \* a reply holding a part the needless filter forbids
         [] i = 12 -> [in_reply_to |-> 4, user |-> 1, lex |-> {},
                       toks |-> <<Tok("n12", "noun_main"), Tok("x12", "other")>>]
         \* a reply to the reply to the tweet carrying a URL
         [] i = 13 -> [in_reply_to |-> 8, user |-> 2, lex |-> {}, toks |-> Good("13")]]

TweetIds == DOMAIN Tweets

\* ------------------------------------------------------ config.yml filter
need == {"noun_main"}
needless == {"other"}
dump == {"noun_main", "verb_main", "pronoun"}
length_min == 1
length_max == 3

\* -------------------------------------------------------- pure functions
check(lex) ==
    IF "url" \in lex THEN FALSE
    ELSE IF "hashtag" \in lex THEN FALSE
    ELSE IF "alnum" \in lex THEN FALSE
    ELSE TRUE

parse_words(toks) == [i \in 1..Len(toks) |-> toks[i].word]
parse_parts(toks) == [i \in 1..Len(toks) |-> toks[i].part]

need_check(parts) == \A part \in need : part \in Range(parts)

needless_check(parts) == \A i \in 1..Len(parts) : parts[i] \notin needless

RECURSIVE dump_filter(_)
dump_filter(toks) ==
    IF toks = <<>> THEN <<>>
    ELSE IF Head(toks).part \in dump
         THEN <<Head(toks)>> \o dump_filter(Tail(toks))
         ELSE dump_filter(Tail(toks))

\* length_check without the upper bound
length_check_no_max(words) == length_min <= Len(words)

length_check(words) == length_min <= Len(words) /\ Len(words) <= length_max

\* lines 157-161 / 194-198: need, needless, dump and length filter on the
\* parsed text; ok tells whether the tweet is kept.
filter_result(toks, dumped_toks) ==
    [ok    |-> need_check(parse_parts(toks)) /\ needless_check(parse_parts(toks))
               /\ length_check(parse_words(dumped_toks)),
     words |-> parse_words(dumped_toks),
     parts |-> parse_parts(dumped_toks)]

filtered(toks) == filter_result(toks, dump_filter(toks))

(* What on_status (lines 153-162) and lookup (lines 181, 193-199) make of   *)
(* the tweet i: whether check() passes, whether the filters pass, and the  *)
(* element [tweet, parts] appended to a dialog, with tweet =                *)
(* [in_reply_to_status_id, user id, words, id].                            *)
candidate(i, tweet, f) ==
    [lex_ok |-> check(tweet.lex), ok |-> f.ok,
     entry |-> [in_reply_to |-> tweet.in_reply_to, user |-> tweet.user,
                words |-> f.words, id |-> i, parts |-> f.parts]]

\* computed once for every tweet of the service
candidates == [i \in TweetIds |-> candidate(i, Tweets[i], filtered(Tweets[i].toks))]

Last(s) == s[Len(s)]

RECURSIVE reverse(_)
reverse(s) == IF s = <<>> THEN <<>> ELSE reverse(Tail(s)) \o <<Head(s)>>

\* ' '.join(words)
RECURSIVE join(_)
join(words) ==
    IF words = <<>> THEN <<>>
    ELSE IF Len(words) = 1 THEN <<words[1]>>
    ELSE <<words[1], " ">> \o join(Tail(words))

\* ------------------------------------------------------ check point text
DigitChar == <<"0", "1", "2", "3", "4", "5", "6", "7", "8", "9">>
IsDigit(c) == \E d \in 1..10 : DigitChar[d] = c
DigitVal(c) == (CHOOSE d \in 1..10 : DigitChar[d] = c) - 1
IsSpace(c) == c = " " \/ c = "\n"

\* str(n) of a non-negative integer
RECURSIVE str(_)
str(n) ==
    IF n < 10 THEN <<DigitChar[n + 1]>>
    ELSE str(n \div 10) \o <<DigitChar[(n % 10) + 1]>>

\* ' '.join(map(str, ids)), ids in the order the set is iterated
RECURSIVE join_ids(_)
join_ids(ids) ==
    IF ids = <<>> THEN <<>>
    ELSE IF Len(ids) = 1 THEN str(ids[1])
    ELSE str(ids[1]) \o <<" ">> \o join_ids(Tail(ids))

\* the two writes without the "\n" between them
check_point_text_no_newline(count, ids) == str(count) \o join_ids(ids)

\* what save_check_point writes: str(dump_count) + "\n", then the ids
check_point_text(count, ids) == str(count) \o <<"\n">> \o join_ids(ids)

\* f.readline(): the characters up to and including the first "\n"
RECURSIVE readline(_)
readline(data) ==
    IF data = <<>> THEN <<>>
    ELSE IF Head(data) = "\n" THEN <<"\n">>
    ELSE <<Head(data)>> \o readline(Tail(data))

rest_after_line(data) == SubSeq(data, Len(readline(data)) + 1, Len(data))

RECURSIVE lstrip(_)
lstrip(s) == IF s # <<>> /\ IsSpace(Head(s)) THEN lstrip(Tail(s)) ELSE s

strip(s) == reverse(lstrip(reverse(lstrip(s))))

\* s.split(): the maximal runs of non-whitespace characters
RECURSIVE split_from(_, _)
split_from(s, cur) ==
    IF s = <<>> THEN (IF cur = <<>> THEN <<>> ELSE <<cur>>)
    ELSE IF IsSpace(Head(s))
         THEN (IF cur = <<>> THEN <<>> ELSE <<cur>>) \o split_from(Tail(s), <<>>)
         ELSE split_from(Tail(s), Append(cur, Head(s)))

split(s) == split_from(s, <<>>)

\* int(s) raises ValueError unless s is a non-empty run of digits
int_ok(s) == s # <<>> /\ \A i \in 1..Len(s) : IsDigit(s[i])

RECURSIVE int(_)
int(s) ==
    IF Len(s) = 1 THEN DigitVal(s[1])
    ELSE 10 * int(SubSeq(s, 1, Len(s) - 1)) + DigitVal(s[Len(s)])

\* the order in which map(str, self.tweet_ids) iterates the set: one fixed
\* order here; CPSave below tries every order
RECURSIVE set_order(_)
set_order(S) ==
    IF S = {} THEN <<>>
    ELSE LET m == CHOOSE x \in S : \A y \in S : x <= y
         IN <<m>> \o set_order(S \ {m})

\* lines 456-457 on the two stripped lines of an opened check point file:
\* int() raises ValueError on a text that is no number
parse_lines(l1, l2) ==
    IF ~int_ok(l1) THEN [raised |-> TRUE, dump_count |-> 0, tweet_ids |-> {}]
    ELSE IF \E i \in 1..Len(l2) : ~int_ok(l2[i])
         THEN [raised |-> TRUE, dump_count |-> int(l1), tweet_ids |-> {}]
         ELSE [raised |-> FALSE, dump_count |-> int(l1),
               tweet_ids |-> {int(l2[i]) : i \in 1..Len(l2)}]

parse_check_point(data) ==
    parse_lines(strip(readline(data)), split(strip(readline(rest_after_line(data)))))

\* ------------------------------------------------------------------ state
VARIABLES
    pc,              \* where twitter() stands: "loop" (top of while True),
                     \* "stream" (inside stream.filter, between two tweets),
                     \* "lookup" (inside on_status, at the while of line 165),
                     \* "except" (in the bare except, before the sleep),
                     \* "break" (left the loop), "exit1" (sys.exit(1) got out),
                     \* "uncaught" (an exception left twitter())
    config_file,     \* config.yml: "ok", "missing", "malformed", "auth_error"
    output_part,     \* config output.part
    cp_access,       \* "rw", or "denied": open() of the check point file fails
    check_point,     \* the check point file: [exists, data]
    tcpip_delay,     \* the global tcpip_delay
    last_sleep,      \* argument of the latest time.sleep, 0 before the first
    listener_bound,  \* twitter()'s local listener is bound
    tweet_ids,       \* listener.tweet_ids
    queue,           \* listener.queue
    dump_count,      \* listener.dump_count
    tweet_file,      \* data/tweet.txt, its lines
    reply_file,      \* data/reply.txt, its lines
    tweet_part_file, \* data/tweet-part.txt, its lines
    delivered,       \* tweets the stream has delivered so far
    loaded_ids,      \* tweet_ids as load_check_point of this listener left it
    admits,          \* the queue appends of the latest step: [id, seen], seen
                     \* telling whether id was in tweet_ids when appended
    dumped           \* the dialogs the latest step passed to dump_data

vars == <<pc, config_file, output_part, cp_access, check_point, tcpip_delay,
          last_sleep, listener_bound, tweet_ids, queue, dump_count, tweet_file,
          reply_file, tweet_part_file, delivered, loaded_ids, admits, dumped>>

env == <<config_file, output_part, cp_access>>
files == <<tweet_file, reply_file, tweet_part_file>>
memory == <<listener_bound, tweet_ids, queue, dump_count, loaded_ids>>

NoFile == [exists |-> FALSE, data |-> <<>>]
EmptyFile == [exists |-> TRUE, data |-> <<>>]

(* What the process finds at its start.  The check point file: none; none, *)
(* and none can be created; an empty one, as an interrupted save leaves it *)
(* (open(..., 'w') truncates before the write); one that cannot be opened. *)
(* part is output.part of config.yml.                                      *)
Starts ==
    {[file |-> NoFile, access |-> "rw", part |-> TRUE],
     [file |-> NoFile, access |-> "rw", part |-> FALSE],
     [file |-> NoFile, access |-> "denied", part |-> FALSE],
     [file |-> EmptyFile, access |-> "rw", part |-> TRUE],
     [file |-> EmptyFile, access |-> "denied", part |-> TRUE]}

Init ==
    /\ pc = "loop"
    /\ config_file \in {"ok", "missing", "malformed", "auth_error"}
    /\ \E start \in Starts :
         /\ check_point = start.file
         /\ cp_access = start.access
         /\ output_part = start.part
    /\ tcpip_delay = InitialDelay
    /\ last_sleep = 0
    /\ listener_bound = FALSE
    /\ tweet_ids = {}
    /\ queue = <<>>
    /\ dump_count = 0
    /\ tweet_file = <<>>
    /\ reply_file = <<>>
    /\ tweet_part_file = <<>>
    /\ delivered = 0
    /\ loaded_ids = {}
    /\ admits = <<>>
    /\ dumped = <<>>

\* ------------------------------------------------------------ check point
\* save_check_point that writes the count and drops the ids
save_check_point_count_only(cp, count, ids) ==
    IF cp_access = "denied" THEN cp
    ELSE [exists |-> TRUE, data |-> str(count) \o <<"\n">>]

\* save_check_point: the file after the call
save_check_point(cp, count, ids) ==
    IF cp_access = "denied" THEN cp
    ELSE [exists |-> TRUE, data |-> check_point_text(count, set_order(ids))]

\* load_check_point: what the listener holds after the call, or raised
load_check_point(cp) ==
    IF ~cp.exists THEN [raised |-> FALSE, dump_count |-> 0, tweet_ids |-> {}]
    ELSE IF cp_access = "denied"
         THEN [raised |-> FALSE, dump_count |-> 0, tweet_ids |-> {}]
         ELSE parse_check_point(cp.data)

\* ------------------------------------------------------------- twitter()
\* QueueListener() leaves by sys.exit(1); the bare except of twitter()
\* catches the SystemExit
ConstructExit ==
    /\ pc = "loop"
    /\ config_file # "ok"
    /\ pc' = "except"
    /\ admits' = <<>>
    /\ dumped' = <<>>
    /\ UNCHANGED <<env, check_point, tcpip_delay, last_sleep, memory, files, delivered>>

\* the listener after __init__ with load_check_point returning loaded
Constructed(loaded) ==
    IF loaded.raised
    THEN /\ pc' = "except"
         /\ UNCHANGED memory
    ELSE /\ pc' = "stream"
         /\ tweet_ids' = loaded.tweet_ids
         /\ loaded_ids' = loaded.tweet_ids
         /\ dump_count' = loaded.dump_count
         /\ queue' = <<>>
         /\ listener_bound' = TRUE

\* QueueListener() with a usable config.yml: it returns and
\* Stream(...).filter(...) starts, or load_check_point raises (int() of
\* lines 456-457) into the bare except
Construct ==
    /\ pc = "loop"
    /\ config_file = "ok"
    /\ Constructed(load_check_point(check_point))
    /\ admits' = <<>>
    /\ dumped' = <<>>
    /\ UNCHANGED <<env, check_point, tcpip_delay, last_sleep, files, delivered>>

\* lines 474-475 without the min
next_delay_uncapped(d) == d + DelayIncrement

\* lines 474-475
next_delay(d) == Min(d + DelayIncrement, MaxDelay)

\* the bare except: sleep, then raise the delay
Backoff ==
    /\ pc = "except"
    /\ last_sleep' = tcpip_delay
    /\ tcpip_delay' = next_delay(tcpip_delay)
    /\ pc' = "loop"
    /\ admits' = <<>>
    /\ dumped' = <<>>
    /\ UNCHANGED <<env, check_point, memory, files, delivered>>

\* -------------------------------------------------------- QueueListener
\* talker_check without its second test: only adjacent talkers compared
talker_check_adjacent_only(talker, dialog) == talker # Last(dialog).user

\* line 273; dialog is self.queue[idx], its last element the oldest tweet
talker_check(talker, dialog) ==
    /\ talker # Last(dialog).user
    /\ (Len(dialog) = 1 \/ talker = dialog[Len(dialog) - 1].user)

\* line 20; indices count from 1 here
RECURSIVE dellist_from(_, _, _)
dellist_from(items, indices, idx) ==
    IF idx > Len(items) THEN <<>>
    ELSE (IF idx \in indices THEN <<>> ELSE <<items[idx]>>)
         \o dellist_from(items, indices, idx + 1)

dellist(items, indices) == dellist_from(items, indices, 1)

\* dump_data without its dialog.reverse()
chronological_unreversed(dialog) == dialog

\* line 221: dialog.reverse()
chronological(dialog) == reverse(dialog)

\* lines 228-235: the lines written for the dialog in time order
tweet_lines(tweets) == [i \in 1..(Len(tweets) - 1) |-> join(tweets[i].words)]
reply_lines(tweets) == [i \in 1..(Len(tweets) - 1) |-> join(tweets[i + 1].words)]
part_lines(tweets) ==
    IF output_part THEN [i \in 1..(Len(tweets) - 1) |-> join(tweets[i].parts)]
    ELSE <<>>

\* lines 224-237 with dump_count raised by the number of tweets
dump_write_counts_tweets(st, idx, dialog, tweets) ==
    [st EXCEPT !.queue[idx] = tweets,
               !.tweet_file = @ \o tweet_lines(tweets),
               !.reply_file = @ \o reply_lines(tweets),
               !.tweet_part_file = @ \o part_lines(tweets),
               !.dump_count = @ + Len(tweets),
               !.dumped = Append(@, dialog)]

\* lines 224-237 on the reversed dialog
dump_write(st, idx, dialog, tweets) ==
    [st EXCEPT !.queue[idx] = tweets,
               !.tweet_file = @ \o tweet_lines(tweets),
               !.reply_file = @ \o reply_lines(tweets),
               !.tweet_part_file = @ \o part_lines(tweets),
               !.dump_count = @ + (Len(tweets) - 1),
               !.dumped = Append(@, dialog)]

\* dump_data(self.queue[idx]) on the listener state st
dump_data(st, idx) == dump_write(st, idx, st.queue[idx], chronological(st.queue[idx]))

\* lines 153-161 without the isinstance test of line 153
on_status_accepts_any_tweet(c) == c.lex_ok /\ c.ok

\* lines 153-161: the tweet is a reply and passes check and the filters
on_status_accepts(c) == IsInt(c.entry.in_reply_to) /\ c.lex_ok /\ c.ok

\* line 165 as an if: lookup() runs once, whatever the queue holds after it
after_lookup_pc_once(q) == "stream"

\* line 165, after the append and after every lookup
after_append_pc(q) == IF Len(q) = BATCH_SIZE THEN "lookup" ELSE "stream"
after_lookup_pc(q) == IF Len(q) = BATCH_SIZE THEN "lookup" ELSE "stream"

\* lines 162-165
Enqueue(tweet) ==
    /\ queue' = Append(queue, <<tweet>>)
    /\ tweet_ids' = tweet_ids \cup {tweet.id}
    /\ admits' = <<[id |-> tweet.id, seen |-> tweet.id \in tweet_ids]>>
    /\ pc' = after_append_pc(queue')

\* on_data / on_status for the tweet i of the stream
Ingest(i) ==
    /\ pc = "stream"
    /\ delivered < MaxDeliver
    /\ delivered' = delivered + 1
    /\ IF on_status_accepts(candidates[i])
       THEN Enqueue(candidates[i].entry)
       ELSE /\ admits' = <<>>
            /\ UNCHANGED <<queue, tweet_ids, pc>>
    /\ dumped' = <<>>
    /\ UNCHANGED <<env, check_point, tcpip_delay, last_sleep, listener_bound,
                   dump_count, files, loaded_ids>>

\* lines 176-178
lookup_ids(q) == [idx \in 1..Len(q) |-> Last(q[idx]).in_reply_to]

\* line 200 without the isinstance test
stays_open_unseen_only(tweet, ids_seen) == tweet.id \notin ids_seen

\* line 200: the dialog stays in the queue
stays_open(tweet, ids_seen) == IsInt(tweet.in_reply_to) /\ tweet.id \notin ids_seen

\* lines 205-209 once idx is in dump_idxs
finalize_marked(st, idx) == IF Len(st.queue[idx]) >= 2 THEN dump_data(st, idx) ELSE st

\* lines 205-209 with interrupte True
finalize(st, idx) == finalize_marked([st EXCEPT !.dump_idxs = @ \cup {idx}], idx)

\* lines 199 and 202
append_tweet(st, idx, tweet) ==
    [st EXCEPT !.queue[idx] = Append(@, tweet),
               !.admits = Append(@, [id |-> tweet.id, seen |-> tweet.id \in st.tweet_ids]),
               !.tweet_ids = @ \cup {tweet.id}]

\* lines 199-209: the tweet is appended; still_open is the test of line 200,
\* taken before line 202 adds the id
lookup_appended(st, idx, still_open) == IF still_open THEN st ELSE finalize(st, idx)

\* lines 194-209: line 194 has rewritten tweet[2] of the replys_dic entry
lookup_parsed(st, idx, c) ==
    IF c.ok
    THEN lookup_appended(append_tweet(st, idx, c.entry), idx,
                         stays_open(c.entry, st.tweet_ids))
    ELSE finalize(st, idx)

\* lines 191-209 without the check() of line 193
lookup_found_unchecked(st, idx, c) ==
    IF talker_check(c.entry.user, st.queue[idx])
    THEN lookup_parsed([st EXCEPT !.parsed = @ \cup {c.entry.id}], idx, c)
    ELSE finalize(st, idx)

\* lines 191-209 for a tweet found in replys_dic, its text still a string
lookup_found(st, idx, c) ==
    IF c.lex_ok /\ talker_check(c.entry.user, st.queue[idx])
    THEN lookup_parsed([st EXCEPT !.parsed = @ \cup {c.entry.id}], idx, c)
    ELSE finalize(st, idx)

(* lines 186-209, one round of the for loop for the parent id rid.  replys *)
(* is the set of ids statuses_lookup returned.  st.parsed holds the ids    *)
(* whose entry of replys_dic line 194 has already rewritten (tweet[2] is a *)
(* word list then): check() on it raises TypeError.                        *)
lookup_round(st, idx, rid, replys) ==
    IF rid \notin replys THEN finalize(st, idx)
    ELSE IF rid \in st.parsed THEN [st EXCEPT !.raised = TRUE]
    ELSE lookup_found(st, idx, candidates[rid])

RECURSIVE lookup_loop(_, _, _, _)
lookup_loop(st, idx, ids, replys) ==
    IF idx > BATCH_SIZE \/ st.raised THEN st
    ELSE lookup_loop(lookup_round(st, idx, ids[idx], replys), idx + 1, ids, replys)

\* line 211, not reached when the loop raised
lookup_end(st) ==
    IF st.raised THEN st ELSE [st EXCEPT !.queue = dellist(st.queue, st.dump_idxs)]

\* what lookup() works on
listener ==
    [queue |-> queue, tweet_ids |-> tweet_ids, dump_count |-> dump_count,
     tweet_file |-> tweet_file, reply_file |-> reply_file,
     tweet_part_file |-> tweet_part_file, dump_idxs |-> {},
     parsed |-> {}, raised |-> FALSE, admits |-> <<>>, dumped |-> <<>>]

\* lookup() with statuses_lookup returning replys
lookup(replys) == lookup_end(lookup_loop(listener, 1, lookup_ids(queue), replys))

\* the listener after lookup() ended in st; an exception in it reaches
\* on_exception (save_check_point) and then the bare except of twitter()
LookupDone(st) ==
    /\ queue' = st.queue
    /\ tweet_ids' = st.tweet_ids
    /\ dump_count' = st.dump_count
    /\ tweet_file' = st.tweet_file
    /\ reply_file' = st.reply_file
    /\ tweet_part_file' = st.tweet_part_file
    /\ admits' = st.admits
    /\ dumped' = st.dumped
    /\ IF st.raised
       THEN /\ check_point' = save_check_point(check_point, st.dump_count, st.tweet_ids)
            /\ pc' = "except"
       ELSE /\ check_point' = check_point
            /\ pc' = after_lookup_pc(st.queue)

\* one lookup() of the while of line 165
Lookup(replys) ==
    /\ pc = "lookup"
    /\ LookupDone(lookup(replys))
    /\ UNCHANGED <<env, tcpip_delay, last_sleep, listener_bound, delivered, loaded_ids>>

\* a handler that also empties the queue of the listener
Handler_drops_queue(next_pc) ==
    /\ check_point' = save_check_point(check_point, dump_count, tweet_ids)
    /\ pc' = next_pc
    /\ queue' = <<>>
    /\ admits' = <<>>
    /\ dumped' = <<>>
    /\ UNCHANGED <<env, tcpip_delay, last_sleep, listener_bound, tweet_ids,
                   dump_count, loaded_ids, files, delivered>>

\* a handler that calls save_check_point and leaves twitter() at next_pc
Handler(next_pc) ==
    /\ check_point' = save_check_point(check_point, dump_count, tweet_ids)
    /\ pc' = next_pc
    /\ admits' = <<>>
    /\ dumped' = <<>>
    /\ UNCHANGED <<env, tcpip_delay, last_sleep, memory, files, delivered>>

\* statuses_lookup raises: on_exception, then the bare except
LookupFail == pc = "lookup" /\ Handler("except")

\* on_error / on_timeout: save_check_point, return True, the stream goes on
Notice == pc = "stream" /\ Handler("stream")

\* the stream raises: on_exception, then the bare except
StreamException ==
    pc = "stream" /\ tcpip_delay <= MaxStreamFailDelay /\ Handler("except")

\* KeyboardInterrupt inside stream.filter, between two tweets or inside
\* on_status between two lookups: lines 467-470
Interrupt == pc \in {"stream", "lookup"} /\ Handler("break")

\* an exception that no clause of twitter() handles ends the process
Uncaught ==
    /\ pc' = "uncaught"
    /\ admits' = <<>>
    /\ dumped' = <<>>
    /\ UNCHANGED <<env, check_point, tcpip_delay, last_sleep, memory, files, delivered>>

(* KeyboardInterrupt inside QueueListener() (line 462).  The clause of     *)
(* line 467 runs listener.save_check_point(): listener is the listener of  *)
(* an earlier turn of the loop, or, in the first turn, not bound, and the  *)
(* UnboundLocalError leaves twitter().                                     *)
InterruptConstruct ==
    /\ pc = "loop"
    /\ IF listener_bound THEN Handler("break") ELSE Uncaught

\* KeyboardInterrupt inside time.sleep (line 473): raised in the bare
\* except clause, it is handled by no clause of the try statement
InterruptSleep == pc = "except" /\ Uncaught

Next ==
    \/ ConstructExit
    \/ Construct
    \/ Backoff
    \/ \E i \in TweetIds : Ingest(i)
    \/ \E replys \in SUBSET Range(lookup_ids(queue)) : Lookup(replys)
    \/ LookupFail
    \/ Notice
    \/ StreamException
    \/ Interrupt
    \/ InterruptConstruct
    \/ InterruptSleep

Spec == Init /\ [][Next]_vars

\* =================================================================== claims

\* C1: no tweet id that is already in tweet_ids (loaded from the check point
\* or added earlier in the run) is appended to a dialog again, neither by
\* on_status opening a dialog nor by lookup extending one.
C1_NoReadmission == \A k \in 1..Len(admits) : ~admits[k].seen

Alternates(dialog) ==
    /\ \A k \in 1..(Len(dialog) - 1) : dialog[k].user # dialog[k + 1].user
    /\ \A k \in 1..(Len(dialog) - 2) : dialog[k].user = dialog[k + 2].user

\* C2: in every dialog passed to dump_data (and every dialog of the queue)
\* adjacent tweets have different users and tweets two apart the same user.
C2_Alternation ==
    /\ \A k \in 1..Len(dumped) : Alternates(dumped[k])
    /\ \A k \in 1..Len(queue) : Alternates(queue[k])

\* a dialog of three tweets has been dumped
C2_Witness == \E k \in 1..Len(dumped) : Len(dumped[k]) >= 3

\* C3: the queue never holds more than BATCH_SIZE dialogs, lookup runs only
\* on a queue of exactly BATCH_SIZE dialogs, and whenever on_status has
\* returned normally the queue holds fewer than BATCH_SIZE.
C3_BatchCapacity ==
    /\ Len(queue) <= BATCH_SIZE
    /\ pc = "lookup" <=>
          (Len(queue) = BATCH_SIZE /\ pc \notin {"except", "loop", "break", "uncaught"})
    /\ pc = "stream" => Len(queue) < BATCH_SIZE

\* a lookup has run and the queue is full again: the while loops
C3_Witness ==
    pc = "lookup" /\ Len(queue) = BATCH_SIZE /\ \E k \in 1..Len(queue) : Len(queue[k]) >= 2

\* line n of the tweet file and of the reply file are the dumped words of
\* some tweet p and of a tweet r whose in_reply_to_status_id is p
LinePaired(n) ==
    \E p, r \in TweetIds :
        /\ candidates[r].entry.in_reply_to = p
        /\ tweet_file[n] = join(candidates[p].entry.words)
        /\ reply_file[n] = join(candidates[r].entry.words)
        /\ output_part => tweet_part_file[n] = join(candidates[p].entry.parts)

\* the dialog (newest tweet first) as its pairs in time order: the j-th
\* pair is the j-th oldest tweet and the tweet that follows it
PairsOf(dialog) ==
    [j \in 1..(Len(dialog) - 1) |->
        [tweet |-> dialog[Len(dialog) - j + 1], reply |-> dialog[Len(dialog) - j]]]

RECURSIVE AllPairs(_)
AllPairs(dialogs) ==
    IF dialogs = <<>> THEN <<>> ELSE PairsOf(Head(dialogs)) \o AllPairs(Tail(dialogs))

\* the step appends to the files exactly the pairs of the dialogs it dumped
PairsWritten(pairs) ==
    /\ tweet_file' = tweet_file \o [k \in 1..Len(pairs) |-> join(pairs[k].tweet.words)]
    /\ reply_file' = reply_file \o [k \in 1..Len(pairs) |-> join(pairs[k].reply.words)]
    /\ \A k \in 1..Len(pairs) : pairs[k].reply.in_reply_to = pairs[k].tweet.id
    /\ tweet_part_file' = tweet_part_file \o
          (IF output_part THEN [k \in 1..Len(pairs) |-> join(pairs[k].tweet.parts)]
           ELSE <<>>)

\* C4 as stated: the three files always have the same number of lines, and
\* line n of the reply file follows line n of the tweet file in a dialog.
C4_SameLineCount ==
    /\ Len(tweet_file) = Len(reply_file)
    /\ Len(tweet_part_file) = Len(tweet_file)
    /\ \A n \in 1..Len(tweet_file) : LinePaired(n)

\* C4 amended: the tweet file and the reply file always have the same number
\* of lines, the part file has as many when output.part is set and none
\* otherwise; every step appends exactly the pairs (tweet, following tweet)
\* of the dialogs it passed to dump_data, in time order.
C4_Pairing ==
    /\ [](/\ Len(tweet_file) = Len(reply_file)
          /\ Len(tweet_part_file) = (IF output_part THEN Len(tweet_file) ELSE 0)
          /\ \A n \in 1..Len(tweet_file) : LinePaired(n))
    /\ [][PairsWritten(AllPairs(dumped'))]_vars

\* a dialog of three tweets has been dumped, part file written
C4_Witness ==
    /\ output_part
    /\ Len(tweet_part_file) >= 2
    /\ \E k \in 1..Len(dumped) : Len(dumped[k]) >= 3

\* C5: with config.yml missing or malformed, or the auth set-up failing, the
\* process never opens a stream and never enters the back-off of the
\* reconnect loop: it is at its start or has exited with code 1.
C5_ConfigFailureExits ==
    config_file # "ok" =>
        (pc \in {"loop", "exit1"} /\ tcpip_delay = InitialDelay /\ last_sleep = 0)

\* the check point file holds exactly count and ids
DecodesTo(loaded, count, ids) ==
    ~loaded.raised /\ loaded.dump_count = count /\ loaded.tweet_ids = ids

Persisted(cp, count, ids) == cp.exists /\ DecodesTo(parse_check_point(cp.data), count, ids)

\* a lookup() that returns
BatchCompletes == pc = "lookup" /\ pc' \in {"lookup", "stream"}

\* a step in which a handler of the listener, or the KeyboardInterrupt
\* clause of twitter(), has called save_check_point
HandlerSaves ==
    \/ Notice
    \/ (pc \in {"stream", "lookup"} /\ pc' \in {"except", "break"})

C7_CrashSafeConsumption ==
    /\ [](\A k \in 1..Len(admits) : admits[k].id \in tweet_ids)
    /\ [][(pc = "loop" /\ pc' = "stream" /\ listener_bound /\ cp_access = "rw")
             => tweet_ids \subseteq tweet_ids']_vars
    /\ [](\A k \in 1..Len(admits) : admits[k].id \notin loaded_ids)

\* the check point file exists and cannot be read as a count line and ids
Unreadable(cp) ==
    cp.exists /\ (cp_access = "denied" \/ parse_check_point(cp.data).raised)

\* C9: when the check point file cannot be read at start-up, QueueListener()
\* returns with tweet_ids empty and dump_count 0 and the stream is opened.
C9_ReadFailureNonFatal ==
    [][(pc = "loop" /\ config_file = "ok" /\ Unreadable(check_point))
          => (pc' = "stream" /\ tweet_ids' = {} /\ dump_count' = 0)]_vars

\* C10: tcpip_delay starts at 0.25 s and never exceeds 16 s; the bare except
\* sleeps tcpip_delay and then raises it by 0.25 s, up to 16 s; no other
\* step changes it; the loop is re-entered only after that sleep.
C10_Backoff ==
    /\ tcpip_delay = InitialDelay
    /\ [](tcpip_delay >= InitialDelay /\ tcpip_delay <= MaxDelay)
    /\ [][IF pc = "except" /\ pc' # "uncaught"
          THEN /\ last_sleep' = tcpip_delay
               /\ tcpip_delay' = Min(tcpip_delay + DelayIncrement, MaxDelay)
               /\ pc' = "loop"
          ELSE /\ tcpip_delay' = tcpip_delay
               /\ pc' # "loop"]_vars

\* the delay has reached 16 s and the loop has slept 16 s
C10_Witness == tcpip_delay = MaxDelay /\ last_sleep = MaxDelay /\ pc = "loop"

\* a step in which KeyboardInterrupt is raised
Interrupted == Interrupt \/ InterruptConstruct \/ InterruptSleep

\* C11: a KeyboardInterrupt at any point of the loop of twitter() saves the
\* check point of the listener and leaves the loop by the break, with no
\* further QueueListener(); and the loop is left by no other step.
C11_InterruptSavesAndBreaks ==
    /\ [][Interrupted =>
             /\ pc' = "break"
             /\ check_point' = save_check_point(check_point, dump_count, tweet_ids)]_vars
    /\ [][pc' \in {"break", "uncaught", "exit1"} => Interrupted]_vars

\* number of words of a written line: the words are joined by one space
WordCount(line) == (Len(line) + 1) \div 2

InLength(n) == length_min <= n /\ n <= length_max

\* C12: every line of the tweet file and of the reply file holds between
\* length.min and length.max words, and so does every tweet of every dialog
\* passed to dump_data or waiting in the queue.
C12_LengthBound ==
    /\ \A n \in 1..Len(tweet_file) : InLength(WordCount(tweet_file[n]))
    /\ \A n \in 1..Len(reply_file) : InLength(WordCount(reply_file[n]))
    /\ \A k \in 1..Len(dumped) : \A j \in 1..Len(dumped[k]) :
           InLength(Len(dumped[k][j].words))
    /\ \A k \in 1..Len(queue) : \A j \in 1..Len(queue[k]) :
           InLength(Len(queue[k][j].words))

\* a batch has dumped a dialog and closed the dialog of tweet 11, whose
\* parent is too long, without a dump
C12_Witness ==
    /\ dumped # <<>>
    /\ tweet_file # <<>>
    /\ 11 \in tweet_ids
    /\ \A k \in 1..Len(queue) : queue[k][1].id # 11
    /\ \E a \in 1..Len(admits) : admits[a].id \in {1, 2, 3}

\* the dialogs of the queue whose requested parent id is already in
\* tweet_ids when lookup() starts
SeenParentChains == {idx \in 1..Len(queue) : lookup_ids(queue)[idx] \in tweet_ids}

\* the dialog extended by the tweet its last element replies to
Extended(dialog) == Append(dialog, candidates[Last(dialog).in_reply_to].entry)

\* C13: a lookup() that returns closes every dialog whose parent id was
\* already in tweet_ids without appending the parent: the dialog extended
\* by that parent is neither kept in the queue nor passed to dump_data.
C13_SeenParentNotAppended ==
    [][BatchCompletes =>
          \A idx \in SeenParentChains :
             /\ \A k \in 1..Len(queue') : queue'[k] # Extended(queue[idx])
             /\ \A k \in 1..Len(dumped') : dumped'[k] # Extended(queue[idx])]_vars

\* two dialogs of the queue request the same parent id
DuplicateParents ==
    \E i, j \in 1..Len(queue) : i # j /\ lookup_ids(queue)[i] = lookup_ids(queue)[j]

\* a lookup() whose statuses_lookup answers and that is not interrupted
LookupAnswered == pc = "lookup" /\ ~LookupFail /\ ~Interrupt

\* C14: when two dialogs of the queue request the same parent id and
\* statuses_lookup answers, lookup() returns without raising.
C14_DuplicateParentsTolerated ==
    [][(LookupAnswered /\ DuplicateParents) => pc' \in {"lookup", "stream"}]_vars

\* C15: when statuses_lookup raises, that lookup() changes neither the
\* queue, tweet_ids, dump_count nor any of the three files and is not run
\* again; the exception reaches the bare except of twitter(), which sleeps
\* tcpip_delay before the loop builds a new listener, and a new listener
\* starts with an empty queue.
C15_LookupFailureAtomic ==
    /\ [][LookupFail =>
             /\ UNCHANGED <<queue, tweet_ids, dump_count, tweet_file, reply_file,
                            tweet_part_file>>
             /\ pc' = "except"]_vars
    /\ [][pc = "except" =>
             \/ pc' = "loop" /\ last_sleep' = tcpip_delay /\ UNCHANGED <<queue, files>>
             \/ pc' = "uncaught"]_vars
    /\ [][(pc = "loop" /\ pc' = "stream") => (queue' = <<>> /\ UNCHANGED files)]_vars

\* after an exception out of a lookup() that had changed nothing, twitter()
\* has slept and streams again with a new listener
C15_Witness ==
    /\ pc = "stream"
    /\ queue = <<>>
    /\ last_sleep >= InitialDelay
    /\ Cardinality(tweet_ids) = BATCH_SIZE
    /\ loaded_ids = tweet_ids
    /\ dump_count = 0
    /\ tweet_file = <<>>

\* the tweet i passes check() and the need, needless and length filters
Passes(i) == candidates[i].lex_ok /\ candidates[i].ok

AllPass(dialog) == \A j \in 1..Len(dialog) : Passes(dialog[j].id)

\* the listener at line 211 of a lookup() that got replys, before the closed
\* dialogs are deleted: its queue has the indices of the queue lookup() began with
LoopEnd(replys) == lookup_loop(listener, 1, lookup_ids(queue), replys)

\* the dialogs whose parent is missing from replys, or fails check() or a filter
Rejected(replys) ==
    {idx \in 1..Len(queue) :
        lookup_ids(queue)[idx] \notin replys \/ ~Passes(lookup_ids(queue)[idx])}

\* the dialog idx is closed by the lookup() with the tweets it had (turned
\* into time order when it was dumped)
ClosedAsItWas(st, idx) ==
    /\ idx \in st.dump_idxs
    /\ st.queue[idx] = (IF Len(queue[idx]) >= 2 THEN reverse(queue[idx]) ELSE queue[idx])

\* st is the listener at line 211 of a lookup() that got replys
RejectedClosed(st, replys) ==
    ~st.raised => \A idx \in Rejected(replys) : ClosedAsItWas(st, idx)

IsOrderedSelection(q2, q1, keep) ==
    /\ Len(q2) = Cardinality(keep)
    /\ \E f \in [1..Len(q2) -> keep] :
          /\ \A a, b \in 1..Len(q2) : a < b => f[a] < f[b]
          /\ \A k \in 1..Len(q2) : q2[k] = q1[f[k]]

\* the dialogs lookup() leaves open
OpenIdxs(st) == (1..Len(queue)) \ st.dump_idxs

\* what a lookup() that runs through does to the dialog idx: a dialog left
\* open has been extended by its parent, which is a reply; a dialog
\* extended by a tweet that is no reply is closed
Continuation(st, idx) ==
    /\ idx \notin st.dump_idxs =>
          (st.queue[idx] = Extended(queue[idx]) /\ IsInt(Last(st.queue[idx]).in_reply_to))
    /\ (Len(st.queue[idx]) > Len(queue[idx])
           /\ ~IsInt(candidates[lookup_ids(queue)[idx]].entry.in_reply_to))
          => idx \in st.dump_idxs

\* st is the listener at line 211 of a lookup(): when the lookup() runs
\* through, every dialog is continued or closed as above and line 211
\* leaves the open dialogs in the queue, in their order
Compaction(st) ==
    ~st.raised =>
       /\ \A idx \in 1..Len(queue) : Continuation(st, idx)
       /\ IsOrderedSelection(lookup_end(st).queue, st.queue, OpenIdxs(st))

\* C17: while the stream runs, the oldest tweet of every queued dialog is a
\* reply and every id of every queued dialog is in tweet_ids; a lookup()
\* that runs through keeps a dialog only if it extended it by a parent that
\* is a reply, closes a dialog it extended by a tweet that is no reply, and
\* leaves in the queue exactly the dialogs it kept open, in their order.
C17_ContinuationAndCompaction ==
    /\ pc \in {"stream", "lookup"} =>
          \A k \in 1..Len(queue) :
             /\ IsInt(Last(queue[k]).in_reply_to)
             /\ \A j \in 1..Len(queue[k]) : queue[k][j].id \in tweet_ids
    /\ pc = "lookup" =>
          \A replys \in SUBSET Range(lookup_ids(queue)) : Compaction(LoopEnd(replys))

\* a lookup() has kept a dialog it extended and has closed and dumped one it
\* extended by a tweet that is no reply
C17_Witness ==
    /\ pc = "stream"
    /\ \E k \in 1..Len(queue) : Len(queue[k]) >= 2
    /\ \E d \in 1..Len(dumped) : ~IsInt(Last(dumped[d]).in_reply_to)

\* a new listener takes the place of the old one
Restart == pc = "loop" /\ pc' = "stream"

\* the dialogs of two tweets or more among those the lookup() closed
DumpedIdxs(st) == {idx \in st.dump_idxs : Len(st.queue[idx]) >= 2}

\* st is the listener at line 211 of a lookup(): when the lookup() runs
\* through, it has dumped as many dialogs as it closed with two tweets or more
DumpedOnce(st) == ~st.raised => Len(st.dumped) = Cardinality(DumpedIdxs(st))

\* every step of one listener raises dump_count and the number of lines of
\* the tweet file by the pairs of the dialogs it dumped, which have two
\* tweets or more; a lookup() that runs through dumps each dialog it closes
\* with two tweets or more once
DumpAccounting ==
    /\ [][~Restart =>
             /\ dump_count' = dump_count + Len(AllPairs(dumped'))
             /\ Len(tweet_file') = Len(tweet_file) + Len(AllPairs(dumped'))
             /\ \A k \in 1..Len(dumped') : Len(dumped'[k]) >= 2]_vars
    /\ [](pc = "lookup" =>
            \A replys \in SUBSET Range(lookup_ids(queue)) : DumpedOnce(LoopEnd(replys)))

\* C18 as stated: every closed dialog of L >= 2 tweets is dumped once, with
\* L - 1 lines and dump_count raised by L - 1, a closed dialog of one tweet
\* writes nothing; and dump_count is the number of lines of the tweet file
\* after any ingests, lookups and restarts.
C18_CountEqualsLines == DumpAccounting /\ [](dump_count = Len(tweet_file))

\* C18 amended: the accounting of each dump as stated; dump_count is the
\* number of lines of the tweet file as long as the check point file can be
\* written; when it cannot, a restart sets dump_count back (to 0 with no
\* check point) while the file keeps its lines: dump_count never exceeds
\* the number of lines.
C18_DumpAccounting ==
    /\ DumpAccounting
    /\ [](cp_access = "rw" => dump_count = Len(tweet_file))
    /\ [](dump_count <= Len(tweet_file))

\* a listener built after a restart has reloaded the count of the lines
\* written before it
C18_Witness ==
    /\ pc = "stream"
    /\ cp_access = "rw"
    /\ last_sleep >= InitialDelay
    /\ queue = <<>>
    /\ delivered = BATCH_SIZE
    /\ dump_count >= 1
    /\ dump_count = Len(tweet_file)

\* the tweet i is no reply, or fails check() or a filter
Unfit(i) == ~IsInt(Tweets[i].in_reply_to) \/ ~Passes(i)

\* the step leaves the listener and the files alone and starts no lookup()
NoEffect ==
    /\ UNCHANGED <<queue, tweet_ids, dump_count, tweet_file, reply_file, tweet_part_file>>
    /\ pc' = pc
    /\ pc' # "lookup"

\* C19: on_status for a tweet that is no reply, or that fails check() or a
\* filter, changes neither the queue, tweet_ids, dump_count nor any of the
\* three files and calls no lookup(); any other delivered tweet opens one
\* dialog of one tweet.
C19_RejectedIngestNoEffect ==
    [][\A i \in TweetIds :
          Ingest(i) =>
             IF Unfit(i) THEN NoEffect
             ELSE queue' = Append(queue, <<candidates[i].entry>>)]_vars

\* the stream has delivered a tweet and the listener holds nothing
C19_Witness ==
    /\ pc = "stream"
    /\ delivered = 1
    /\ last_sleep = 0
    /\ queue = <<>>
    /\ tweet_ids = {}

\* ------------------------------- the stream with a service that answers
(* twitter() with a statuses_lookup that always answers, a stream that     *)
(* does not fail and no KeyboardInterrupt; a lookup() that is due runs.    *)
(* config.yml is usable, output.part is set, there is no check point file. *)
InitIngest ==
    /\ Init
    /\ config_file = "ok"
    /\ output_part
    /\ check_point = NoFile
    /\ cp_access = "rw"

NextIngest ==
    \/ Construct
    \/ \E i \in TweetIds : Ingest(i)
    \/ \E replys \in SUBSET Range(lookup_ids(queue)) : Lookup(replys)

SpecIngest ==
    /\ InitIngest
    /\ [][NextIngest]_vars
    /\ WF_vars(\E replys \in SUBSET Range(lookup_ids(queue)) : Lookup(replys))

\* C20: with statuses_lookup answering, every lookup() of the while of line
\* 165 returns, the rounds end after finitely many, on_status then returns
\* to the stream with the queue holding fewer than BATCH_SIZE dialogs, and
\* no tweet is taken from the stream before.
C20_IngestCompletes ==
    /\ [][pc = "lookup" => pc' \in {"lookup", "stream"}]_vars
    /\ [][(pc = "lookup" /\ pc' = "stream") => Len(queue') < BATCH_SIZE]_vars
    /\ [][delivered' # delivered => pc = "stream"]_vars
    /\ (pc = "lookup") ~> (pc # "lookup")

\* the rounds themselves end: every round that is followed by another has
\* added an id to tweet_ids, and the while is left
C20_RoundsEnd ==
    /\ (pc = "lookup") ~> (pc # "lookup")
    /\ [][(pc = "lookup" /\ pc' = "lookup") =>
             (tweet_ids \subseteq tweet_ids' /\ tweet_ids' # tweet_ids)]_vars

\* ------------------------------------------- check point round trip alone
\* ids tried in the round trip, one and two digits long
CPIds == {2, 3, 10, 12}

\* every order in which a set can be iterated
Orders(S) == {f \in [1..Cardinality(S) -> S] : \A i, j \in 1..Cardinality(S) : f[i] = f[j] => i = j}

InitCP ==
    /\ pc = "cp_save"
    /\ tweet_ids \in SUBSET CPIds
    /\ dump_count \in 0..MaxCount
    /\ check_point = NoFile
    /\ cp_access = "rw"
    /\ config_file = "ok"
    /\ output_part = FALSE
    /\ tcpip_delay = InitialDelay
    /\ last_sleep = 0
    /\ listener_bound = TRUE
    /\ queue = <<>>
    /\ tweet_file = <<>>
    /\ reply_file = <<>>
    /\ tweet_part_file = <<>>
    /\ delivered = 0
    /\ loaded_ids = {}
    /\ admits = <<>>
    /\ dumped = <<>>

\* save_check_point, the set iterated in any order
CPSave ==
    /\ pc = "cp_save"
    /\ \E order \in Orders(tweet_ids) :
          check_point' = [exists |-> TRUE, data |-> check_point_text(dump_count, order)]
    /\ pc' = "cp_load"
    /\ UNCHANGED <<env, tcpip_delay, last_sleep, memory, files, delivered, admits, dumped>>

CPLoaded(loaded) ==
    /\ tweet_ids' = loaded.tweet_ids
    /\ dump_count' = loaded.dump_count
    /\ pc' = IF loaded.raised THEN "cp_raised" ELSE "cp_done"

\* load_check_point
CPLoad ==
    /\ pc = "cp_load"
    /\ CPLoaded(load_check_point(check_point))
    /\ UNCHANGED <<env, check_point, tcpip_delay, last_sleep, listener_bound, queue,
                   loaded_ids, files, delivered, admits, dumped>>

NextCP == CPSave \/ CPLoad

SpecCP == InitCP /\ [][NextCP]_vars

\* C8: load_check_point after save_check_point restores the dump_count and
\* the set of ids that were saved, the empty set included.
C8_RoundTrip ==
    [][pc = "cp_load" =>
          (pc' = "cp_done" /\ dump_count' = dump_count /\ tweet_ids' = tweet_ids)]_vars

\* the empty set and a count of two digits have made the round trip
C8_Witness == pc = "cp_done" /\ tweet_ids = {} /\ dump_count >= 10

====
